---- MODULE Spec2Model ----
(***************************************************************************)
(* Media assembly pipeline of app/utils/video_combiner.py:                *)
(*   download_video, combine_videos, combine_videos_from_urls.            *)
(* The server is one uvicorn process (main.py), hence one asyncio event   *)
(* loop: coroutines of different requests interleave only where a         *)
(* coroutine awaits something that suspends (the HTTP GET and the closing  *)
(* of the HTTP client in download_video).  combine_videos contains no      *)
(* await, so everything from the last download check to the return of     *)
(* combine_videos_from_urls runs without interleaving.  The variable       *)
(* `loop` holds the run that currently owns the event loop.                *)
(*                                                                         *)
(* Spec serves one request, with every environment failure possible at     *)
(* every step; the properties of a single run are stated for it.           *)
(* SpecConc serves NumRuns requests that may overlap or follow each other  *)
(* and share the file system; the properties about several batches are     *)
(* stated for it.  Runs are numbered in order of arrival.                  *)
(***************************************************************************)
EXTENDS Integers, Sequences, FiniteSets, TLC

\* ---------------------------------------------------------------- bounds
NumRuns == 2
MaxUrls == 2
NumUrls == 2
NumBatchIds == 2
\* Environment failures (failed GET, I/O error, failing tool, failing
\* os.remove, failing makedirs) that may occur in one behaviour: MaxFaults
\* when a single request is served, ConcFaults when NumRuns requests are.
MaxFaults == 3
ConcFaults == 1

Runs == 1..NumRuns
Urls == 1..NumUrls
\* str(uuid.uuid4())[:8]: the first 8 hex digits of a random UUID.  Nothing
\* in the code checks the value against earlier batches, so a run may draw
\* any value of the space.
BatchIds == 1..NumBatchIds
NoRun == 0

\* ------------------------------------------------------------ file names
RECURSIVE Digits(_)
Digits(n) == IF n < 10 THEN <<n>> ELSE Append(Digits(n \div 10), n % 10)

\* f"{n:03d}": decimal digits, zero-padded on the left to at least 3.
Pad3(n) ==
    LET d == Digits(n)
    IN  IF Len(d) >= 3 THEN d
        ELSE IF Len(d) = 2 THEN <<0>> \o d
        ELSE <<0, 0>> \o d

\* A path is <<root, directory, key, file name>>.  A relative path has the
\* root ""; os.path.abspath prefixes the working directory and leaves an
\* absolute path as it is.  Files are stored under absolute paths.
Cwd == "/cwd"
Abspath(p) == [p EXCEPT ![1] = IF @ = "" THEN Cwd ELSE @]
Join(dir, name) == Append(dir, name)
Basename(p) == p[4]

VideosDir(b) == Abspath(<<"", "downloaded_videos/batch_", b>>)
OutputDirAbs == Abspath(<<"", "combined_generated_videos", 0>>)
TempDir == Abspath(<<"", "temp", 0>>)
\* Every position gets the same file name.
VideoFilenameFixed(k) == <<"video_", Pad3(1), ".mp4">>

\* Line 175: f"video_{i+1:03d}.mp4".
VideoFilename(k) == <<"video_", Pad3(k), ".mp4">>
VideoPath(b, k) == Join(VideosDir(b), VideoFilename(k))
CombinedVideoFilename(b) == <<"combined_", <<b>>, ".mp4">>
CombinedVideoPath(b) == Join(OutputDirAbs, CombinedVideoFilename(b))
\* The orchestrator names its list file after the 8-digit batch id, the
\* engine after a full uuid4 (36 characters): the two never coincide.
ListFilePath(b) == Join(TempDir, <<"video_list_", <<"id8", b>>, ".txt">>)
EngineListFilePath(u) == Join(TempDir, <<"video_list_", <<"uuid", u>>, ".txt">>)
\* The reference is built from the whole output path.
DownloadUrlFullPath(p) == <<"/download/", p>>

\* Line 227: f"/download/{os.path.basename(combined_video_path)}".
DownloadUrl(p) == <<"/download/", Basename(p)>>

AllPaths ==
    {VideoPath(b, k) : b \in BatchIds, k \in 1..MaxUrls}
    \cup {CombinedVideoPath(b) : b \in BatchIds}
    \cup {ListFilePath(b) : b \in BatchIds}
    \cup {EngineListFilePath(u) : u \in Runs}

\* ----------------------------------------------------------- file system
NoFile == [exists |-> FALSE, size |-> 0, data |-> <<>>, by |-> NoRun]
File(sz, d, r) == [exists |-> TRUE, size |-> sz, data |-> d, by |-> r]
Exists(f, p) == f[p].exists
Getsize(f, p) == f[p].size

VARIABLES
    fs,              \* path -> file
    loop,            \* run owning the event loop, or NoRun
    pc,              \* run -> position in combine_videos_from_urls
    video_urls,      \* run -> the request
    batch_id,        \* run -> batch identifier (0 before it is drawn)
    idx,             \* run -> loop index i+1 of the download loop
    video_paths,     \* run -> list of verified local paths
    list_file_path,  \* run -> <<>> (None) or <<path>>, orchestrator
    engine_list,     \* run -> <<>> (None) or <<path>>, combine_videos
    dl_ret,          \* run -> return value of the last download_video
    engine_ret,      \* run -> return value of combine_videos
    result,          \* run -> <<>> or <<dict about to be returned>>
    returned,        \* run -> <<>> or <<dict received by the caller>>
    uuid_count,      \* number of full UUIDs drawn by combine_videos
    fetchLog,        \* run -> sequence of [pos, url, path, status, ret] GETs
    toolLog,         \* run -> sequence of [manifest, output] tool runs
    failures,        \* run -> set of steps that failed in this run
    removed,         \* run -> set of paths this run deleted
    written,         \* run -> set of paths this run wrote
    overlap,         \* set of {r, q}: executions overlapped in time
    prior,           \* run -> runs that had finished when it started
    wsClean,         \* run -> its workspace was empty when it started
    faults,          \* environment failures that may still occur
    arrivals,        \* requests that may still arrive
    served,          \* run -> <<>> or <<status of GET /download/{filename}>>
    \* add_audio_to_video (add_audio_to_video.py)
    apc,             \* position in add_audio_to_video
    video_path,      \* argument
    audio_path,      \* argument
    output_arg,      \* argument output_path: <<>> (None) or <<string>>
    output_path,     \* current value of the local output_path
    afs,             \* files: set of <<path, size>>
    cmd,             \* ffmpeg invocations: sequence of [video, audio, output]
    aresult,         \* <<>> or <<dict returned>>
    \* download_image_from_url (app/utils/image_processor.py)
    ipc,             \* position in download_image_from_url
    image_url,       \* argument
    filename,        \* argument: <<>> (None) or <<string>>
    file_path,       \* <<>> or <<save_directory joined with the file name>>
    ifile,           \* size of the file at file_path, -1 when there is none
    istatus,         \* status of the response, -1 before there is one
    iresult          \* <<>> or <<dict returned>>

vars == <<fs, loop, pc, video_urls, batch_id, idx, video_paths,
          list_file_path, engine_list, dl_ret, engine_ret, result, returned,
          uuid_count, fetchLog, toolLog, failures, removed, written,
          overlap, prior, wsClean, faults, arrivals, served,
          apc, video_path, audio_path, output_arg, output_path, afs, cmd,
          aresult, ipc, image_url, filename, file_path, ifile, istatus,
          iresult>>

\* The state of the download endpoint and of the two helpers, which the
\* steps of combine_videos_from_urls leave alone.
avars == <<apc, video_path, audio_path, output_arg, output_path, afs, cmd,
           aresult>>
ivars == <<ipc, image_url, filename, file_path, ifile, istatus, iresult>>
others == <<served, avars, ivars>>

\* The environment misbehaves (bad) only while the budget lasts.
Inject(bad) ==
    IF bad THEN faults > 0 /\ faults' = faults - 1
    ELSE faults' = faults

Requests == UNION {[1..n -> Urls] : n \in 0..MaxUrls}

Finished(r) == pc[r] \in {"returned", "raised"}
Active(r) == pc[r] \notin {"idle", "returned", "raised"}

\* A failure dict that still names an output path.
FailureWithPath(err) ==
    [success |-> FALSE, combined_video_path |-> <<err>>, download_url |-> <<>>,
     videos_directory |-> <<>>, video_count |-> <<>>, error |-> <<err>>]

Failure(err) ==
    [success |-> FALSE, combined_video_path |-> <<>>, download_url |-> <<>>,
     videos_directory |-> <<>>, video_count |-> <<>>, error |-> <<err>>]

Success(out, dir, n) ==
    [success |-> TRUE, combined_video_path |-> <<out>>,
     download_url |-> <<DownloadUrl(out)>>, videos_directory |-> <<dir>>,
     video_count |-> <<n>>, error |-> <<>>]

InitFiles ==
    /\ fs = [p \in AllPaths |-> NoFile]
    /\ loop = NoRun
    /\ pc = [r \in Runs |-> "idle"]
    /\ video_urls = [r \in Runs |-> <<>>]
    /\ batch_id = [r \in Runs |-> 0]
    /\ idx = [r \in Runs |-> 0]
    /\ video_paths = [r \in Runs |-> <<>>]
    /\ list_file_path = [r \in Runs |-> <<>>]
    /\ engine_list = [r \in Runs |-> <<>>]
    /\ dl_ret = [r \in Runs |-> FALSE]
    /\ engine_ret = [r \in Runs |-> FALSE]
    /\ result = [r \in Runs |-> <<>>]
    /\ returned = [r \in Runs |-> <<>>]
    /\ uuid_count = 0
    /\ fetchLog = [r \in Runs |-> <<>>]
    /\ toolLog = [r \in Runs |-> <<>>]
    /\ failures = [r \in Runs |-> {}]
    /\ removed = [r \in Runs |-> {}]
    /\ written = [r \in Runs |-> {}]
    /\ overlap = {}
    /\ prior = [r \in Runs |-> {}]
    /\ wsClean = [r \in Runs |-> TRUE]

\* No download has been asked for; neither helper has been called.
EndpointIdle == served = [r \in Runs |-> <<>>]

AudioIdle ==
    /\ apc = "idle"
    /\ video_path = <<>>
    /\ audio_path = <<>>
    /\ output_arg = <<>>
    /\ output_path = <<>>
    /\ afs = {}
    /\ cmd = <<>>
    /\ aresult = <<>>

ImageIdle ==
    /\ ipc = "idle"
    /\ image_url = <<>>
    /\ filename = <<>>
    /\ file_path = <<>>
    /\ ifile = -1
    /\ istatus = -1
    /\ iresult = <<>>

\* One request is served.
Init ==
    /\ InitFiles
    /\ EndpointIdle /\ AudioIdle /\ ImageIdle
    /\ faults = MaxFaults
    /\ arrivals = 1

\* NumRuns requests are served by the same event loop.
InitConc ==
    /\ InitFiles
    /\ EndpointIdle /\ AudioIdle /\ ImageIdle
    /\ faults = ConcFaults
    /\ arrivals = NumRuns

\* --------------------------------------------------------- download_video
\* What the HTTP GET of one URL can produce: status 0 stands for an exception
\* raised by client.get (timeout, DNS, connection); io says whether open()
\* and write() of the destination work.
Resp(s, n, io) == [status |-> s, body |-> n, io |-> io]
Responses ==
    {Resp(200, 1, "ok"), Resp(200, 0, "ok"), Resp(200, 1, "open"),
     Resp(200, 1, "write"), Resp(206, 1, "ok"), Resp(404, 1, "ok"),
     Resp(0, 0, "ok")}

\* Any response is taken for a success, whatever its status.
DownloadVideoRetAnyStatus(resp) ==
    IF resp.status = 0 THEN FALSE
    ELSE resp.io = "ok"

\* Lines 33-35, 41, 42-44: the value download_video returns.
DownloadVideoRet(resp) ==
    IF resp.status = 0 THEN FALSE
    ELSE IF resp.status # 200 THEN FALSE
    ELSE resp.io = "ok"

DownloadVideoFs(f, r, url, path, resp) ==
    IF resp.status # 200 \/ resp.io = "open" THEN f
    ELSE IF resp.io = "write" THEN [f EXCEPT ![path] = File(0, <<>>, r)]
    ELSE [f EXCEPT ![path] = File(resp.body, <<url>>, r)]

\* How the fetch went, for the log: "failed" (no 200 response or the body
\* could not be saved), "empty" (200 with an empty body), "ok".
FetchOutcome(resp) ==
    IF resp.status # 200 \/ resp.io # "ok" THEN "failed"
    ELSE IF resp.body = 0 THEN "empty"
    ELSE "ok"

\* ------------------------------------------- combine_videos_from_urls, 1
\* Lines 145-169: draw the batch id, create the three directories.
Start(r, urls, b, mkdirs) ==
    /\ UNCHANGED others
    /\ Inject(~mkdirs)
    /\ pc[r] = "idle"
    /\ loop = NoRun
    /\ arrivals > 0
    /\ \A q \in Runs : q < r => pc[q] # "idle"
    /\ arrivals' = arrivals - 1
    /\ video_urls' = [video_urls EXCEPT ![r] = urls]
    /\ batch_id' = [batch_id EXCEPT ![r] = b]
    /\ idx' = [idx EXCEPT ![r] = 1]
    /\ overlap' = overlap \cup {{r, q} : q \in {x \in Runs : Active(x)}}
    /\ prior' = [prior EXCEPT ![r] = {q \in Runs : Finished(q)}]
    /\ wsClean' = [wsClean EXCEPT ![r] =
            /\ \A k \in 1..MaxUrls : ~Exists(fs, VideoPath(b, k))
            /\ ~Exists(fs, CombinedVideoPath(b))
            /\ ~Exists(fs, ListFilePath(b))]
    /\ loop' = r
    /\ IF mkdirs
         THEN /\ pc' = [pc EXCEPT ![r] =
                    IF Len(urls) >= 1 THEN "fetch" ELSE "manifest"]
              /\ UNCHANGED failures
         ELSE /\ pc' = [pc EXCEPT ![r] = "except"]
              /\ failures' = [failures EXCEPT ![r] = @ \cup {"mkdir"}]
    /\ UNCHANGED <<fs, video_paths, list_file_path, engine_list, dl_ret,
                   engine_ret, result, returned, uuid_count, fetchLog,
                   toolLog, removed, written>>

\* Lines 173-179 up to the await of client.get in download_video.
FetchSend(r) ==
    /\ UNCHANGED others
    /\ UNCHANGED <<faults, arrivals>>
    /\ pc[r] = "fetch"
    /\ loop = r
    /\ fetchLog' = [fetchLog EXCEPT ![r] = Append(@,
            [pos |-> idx[r], url |-> video_urls[r][idx[r]],
             path |-> VideoPath(batch_id[r], idx[r]), status |-> -1,
             ret |-> "pending"])]
    /\ pc' = [pc EXCEPT ![r] = "awaiting"]
    /\ loop' = NoRun
    /\ UNCHANGED <<fs, video_urls, batch_id, idx, video_paths,
                   list_file_path, engine_list, dl_ret, engine_ret, result,
                   returned, uuid_count, toolLog, failures, removed, written,
                   overlap, prior, wsClean>>

\* download_video lines 31-44: the response arrives, the body is saved; the
\* coroutine then suspends again while the client is closed.
FetchRespond(r, resp) ==
    /\ UNCHANGED others
    /\ Inject(resp # Resp(200, 1, "ok"))
    /\ UNCHANGED arrivals
    /\ pc[r] = "awaiting"
    /\ loop = NoRun
    /\ LET path == VideoPath(batch_id[r], idx[r])
           url == video_urls[r][idx[r]]
       IN  /\ fs' = DownloadVideoFs(fs, r, url, path, resp)
           /\ written' = [written EXCEPT ![r] =
                  IF resp.status = 200 /\ resp.io # "open"
                  THEN @ \cup {path} ELSE @]
    /\ dl_ret' = [dl_ret EXCEPT ![r] = DownloadVideoRet(resp)]
    /\ fetchLog' = [fetchLog EXCEPT
           ![r][Len(fetchLog[r])].status = resp.status,
           ![r][Len(fetchLog[r])].ret = FetchOutcome(resp)]
    /\ pc' = [pc EXCEPT ![r] = "downloaded"]
    /\ UNCHANGED <<loop, video_urls, batch_id, idx, video_paths,
                   list_file_path, engine_list, engine_ret, result, returned,
                   uuid_count, toolLog, failures, removed, overlap,
                   prior, wsClean>>

\* The downloaded file is not looked at.
FetchVerdictNoSize(f, path, ret) ==
    IF ~ret THEN "fetch"
    ELSE "ok"

\* The failed download is logged but the loop goes on.
FetchVerdictNoReturn(f, path, ret) ==
    IF ~ret THEN "ok"
    ELSE IF ~Exists(f, path) \/ Getsize(f, path) = 0 THEN "asset"
    ELSE "ok"

\* Lines 181-194: what the orchestrator concludes from download_video's
\* return value and from the file it finds at the destination.
FetchVerdict(f, path, ret) ==
    IF ~ret THEN "fetch"
    ELSE IF ~Exists(f, path) \/ Getsize(f, path) = 0 THEN "asset"
    ELSE "ok"

\* The message does not say which download failed.
DownloadErrorNoIndex(verdict, i, url) ==
    IF verdict = "fetch" THEN <<"Failed to download video", 0, 0>>
    ELSE <<"Downloaded video file is missing or empty", 0, 0>>

\* Lines 185 and 193: the two error texts of the download loop, as <<fixed
\* text, index printed, URL printed>> (0: not printed).  The first prints
\* i+1 and the URL, the second prints only i+1.
DownloadError(verdict, i, url) ==
    IF verdict = "fetch" THEN <<"Failed to download video", i, url>>
    ELSE <<"Downloaded video file is missing or empty", i, 0>>

\* The loop does not advance: the same position is fetched again.
NextIndexStays(i) == i

\* Line 173: enumerate() hands out the positions one after the other.
NextIndex(i) == i + 1

\* The loop is left after its first iteration.
AfterDownloadFirstOnly(i, n) == "manifest"

\* Lines 173 and 199: after the i-th of n downloads was accepted, the loop
\* takes the next URL, or ends and the list file is written.
AfterDownload(i, n) == IF i < n THEN "fetch" ELSE "manifest"

\* Lines 181-197: the check of download_video's result and of the file.
FetchCheck(r) ==
    /\ UNCHANGED others
    /\ UNCHANGED <<faults, arrivals>>
    /\ pc[r] = "downloaded"
    /\ loop = NoRun
    /\ loop' = r
    /\ LET i == idx[r]
           url == video_urls[r][i]
           path == VideoPath(batch_id[r], i)
           verdict == FetchVerdict(fs, path, dl_ret[r])
       IN  IF verdict = "fetch"
           THEN /\ result' = [result EXCEPT ![r] =
                       <<Failure(DownloadError(verdict, i, url))>>]
                /\ failures' = [failures EXCEPT ![r] = @ \cup {"fetch"}]
                /\ pc' = [pc EXCEPT ![r] = "finally"]
                /\ UNCHANGED <<video_paths, idx>>
           ELSE IF verdict = "asset"
           THEN /\ result' = [result EXCEPT ![r] =
                       <<Failure(DownloadError(verdict, i, url))>>]
                /\ failures' = [failures EXCEPT ![r] = @ \cup {"asset"}]
                /\ pc' = [pc EXCEPT ![r] = "finally"]
                /\ UNCHANGED <<video_paths, idx>>
           ELSE /\ video_paths' = [video_paths EXCEPT ![r] = Append(@, path)]
                /\ idx' = [idx EXCEPT ![r] = NextIndex(i)]
                /\ pc' = [pc EXCEPT ![r] =
                       AfterDownload(i, Len(video_urls[r]))]
                /\ UNCHANGED <<result, failures>>
    /\ UNCHANGED <<fs, video_urls, batch_id, list_file_path, engine_list,
                   dl_ret, engine_ret, returned, uuid_count, fetchLog,
                   toolLog, removed, written, overlap, prior, wsClean>>

\* The list is written back to front.
ManifestLinesReversed(paths) ==
    [k \in 1..Len(paths) |-> Abspath(paths[Len(paths) + 1 - k])]

\* Lines 74-79: the lines of the engine's list file, the one ffmpeg reads.
ManifestLines(paths) == [k \in 1..Len(paths) |-> Abspath(paths[k])]

\* Only the first path is listed.
OrchestratorLinesFirstOnly(paths) ==
    [k \in 1..(IF Len(paths) > 0 THEN 1 ELSE 0) |-> Abspath(paths[k])]

\* Lines 204-208: the lines of the orchestrator's list file, one absolute
\* path per entry of video_paths, in order.
OrchestratorLines(paths) == [k \in 1..Len(paths) |-> Abspath(paths[k])]

\* Lines 199-208: the orchestrator's own list file.  list_file_path is
\* assigned before open(), so it is set also when open() or write() raises.
WriteManifest(r, io) ==
    /\ UNCHANGED others
    /\ Inject(io # "ok")
    /\ UNCHANGED arrivals
    /\ pc[r] = "manifest"
    /\ loop = r
    /\ io = "write" => Len(video_paths[r]) > 0
    /\ LET lf == ListFilePath(batch_id[r])
           lines == OrchestratorLines(video_paths[r])
       IN  /\ list_file_path' = [list_file_path EXCEPT ![r] = <<lf>>]
           /\ fs' = IF io = "open" THEN fs
                    ELSE IF io = "write"
                    THEN [fs EXCEPT ![lf] = File(0, <<>>, r)]
                    ELSE [fs EXCEPT ![lf] = File(Len(lines), lines, r)]
           /\ written' = [written EXCEPT ![r] =
                  IF io = "open" THEN @ ELSE @ \cup {lf}]
    /\ IF io = "ok"
         THEN /\ pc' = [pc EXCEPT ![r] = "combine"]
              /\ UNCHANGED failures
         ELSE /\ pc' = [pc EXCEPT ![r] = "except"]
              /\ failures' = [failures EXCEPT ![r] = @ \cup {"manifest_io"}]
    /\ UNCHANGED <<loop, video_urls, batch_id, idx, video_paths, engine_list,
                   dl_ret, engine_ret, result, returned, uuid_count, fetchLog,
                   toolLog, removed, overlap, prior, wsClean>>

\* --------------------------------------------------------- combine_videos
\* Lines 57-66: every input must exist and be non-empty.
InputsOk(f, paths) ==
    \A k \in 1..Len(paths) : Exists(f, paths[k]) /\ Getsize(f, paths[k]) # 0

EngineVerify(r) ==
    /\ UNCHANGED others
    /\ UNCHANGED <<faults, arrivals>>
    /\ pc[r] = "combine"
    /\ loop = r
    /\ engine_list' = [engine_list EXCEPT ![r] = <<>>]
    /\ IF InputsOk(fs, video_paths[r])
         THEN /\ pc' = [pc EXCEPT ![r] = "engine_list"]
              /\ UNCHANGED <<engine_ret, failures>>
         ELSE /\ pc' = [pc EXCEPT ![r] = "engine_finally"]
              /\ engine_ret' = [engine_ret EXCEPT ![r] = FALSE]
              /\ failures' = [failures EXCEPT ![r] = @ \cup {"engine_asset"}]
    /\ UNCHANGED <<fs, loop, video_urls, batch_id, idx, video_paths,
                   list_file_path, dl_ret, result, returned, uuid_count,
                   fetchLog, toolLog, removed, written, overlap, prior,
                   wsClean>>

\* The list file is not looked at before the tool is run.
ListFileOkAlways(f, lf) == TRUE

\* Lines 82-84: the list file must exist and must not be empty.
ListFileOk(f, lf) == Exists(f, lf) /\ Getsize(f, lf) # 0

\* Lines 68-84: the engine's list file, named after a fresh uuid4, and the
\* check that it is not empty.
EngineWriteList(r, io) ==
    /\ UNCHANGED others
    /\ Inject(io # "ok")
    /\ UNCHANGED arrivals
    /\ pc[r] = "engine_list"
    /\ loop = r
    /\ io = "write" => Len(video_paths[r]) > 0
    /\ uuid_count' = uuid_count + 1
    /\ LET lf == EngineListFilePath(uuid_count + 1)
           lines == ManifestLines(video_paths[r])
       IN  /\ engine_list' = [engine_list EXCEPT ![r] = <<lf>>]
           /\ fs' = IF io = "open" THEN fs
                    ELSE IF io = "write"
                    THEN [fs EXCEPT ![lf] = File(0, <<>>, r)]
                    ELSE [fs EXCEPT ![lf] = File(Len(lines), lines, r)]
           /\ written' = [written EXCEPT ![r] =
                  IF io = "open" THEN @ ELSE @ \cup {lf}]
           /\ IF io # "ok"
              THEN /\ pc' = [pc EXCEPT ![r] = "engine_finally"]
                   /\ engine_ret' = [engine_ret EXCEPT ![r] = FALSE]
                   /\ failures' = [failures EXCEPT ![r] = @ \cup {"engine_io"}]
              ELSE IF ~ListFileOk(fs', lf)
              THEN /\ pc' = [pc EXCEPT ![r] = "engine_finally"]
                   /\ engine_ret' = [engine_ret EXCEPT ![r] = FALSE]
                   /\ failures' = [failures EXCEPT ![r] = @ \cup {"engine_list"}]
              ELSE /\ pc' = [pc EXCEPT ![r] = "tool"]
                   /\ UNCHANGED <<engine_ret, failures>>
    /\ UNCHANGED <<loop, video_urls, batch_id, idx, video_paths,
                   list_file_path, dl_ret, result, returned, fetchLog,
                   toolLog, removed, overlap, prior, wsClean>>

\* What one ffmpeg invocation can do: rc -1 stands for subprocess.run raising
\* (binary missing); out says what it leaves at the output path ("none": it
\* does not touch the path).
Tool(rc, out) == [rc |-> rc, out |-> out]
ToolOutcomes ==
    {Tool(-1, "none")}
    \cup {Tool(rc, out) : rc \in {0, 1}, out \in {"none", "empty", "full"}}

ToolFs(f, r, list, output, t) ==
    IF t.out = "none" THEN f
    ELSE IF t.out = "empty" THEN [f EXCEPT ![output] = File(0, <<>>, r)]
    ELSE [f EXCEPT ![output] = File(1, f[list].data, r)]

\* The exit status of the tool is not checked.
EngineVerdictNoExit(f, output, t) ==
    IF t.rc = -1 THEN "tool_exec"
    ELSE IF ~Exists(f, output) THEN "post"
    ELSE IF Getsize(f, output) = 0 THEN "post"
    ELSE "ok"

\* The size of the output is not checked.
EngineVerdictNoSize(f, output, t) ==
    IF t.rc = -1 THEN "tool_exec"
    ELSE IF t.rc # 0 THEN "tool_exit"
    ELSE IF ~Exists(f, output) THEN "post"
    ELSE "ok"

\* Lines 107-124, given the tool's outcome and the file system after it.
EngineVerdict(f, output, t) ==
    IF t.rc = -1 THEN "tool_exec"
    ELSE IF t.rc # 0 THEN "tool_exit"
    ELSE IF ~Exists(f, output) THEN "post"
    ELSE IF Getsize(f, output) = 0 THEN "post"
    ELSE "ok"

\* Lines 86-124: run ffmpeg on the list file, check exit status and output.
RunTool(r, t) ==
    /\ UNCHANGED others
    /\ Inject(t # Tool(0, "full"))
    /\ UNCHANGED arrivals
    /\ pc[r] = "tool"
    /\ loop = r
    /\ LET lf == engine_list[r][1]
           output == CombinedVideoPath(batch_id[r])
           verdict == EngineVerdict(fs', output, t)
       IN  /\ fs' = ToolFs(fs, r, lf, output, t)
           /\ toolLog' = [toolLog EXCEPT ![r] = Append(@,
                  [manifest |-> fs[lf].data, output |-> output, rc |-> t.rc])]
           /\ written' = [written EXCEPT ![r] =
                  IF t.out = "none" THEN @ ELSE @ \cup {output}]
           /\ engine_ret' = [engine_ret EXCEPT ![r] = (verdict = "ok")]
           /\ failures' = [failures EXCEPT ![r] =
                  IF verdict = "ok" THEN @ ELSE @ \cup {verdict}]
    /\ pc' = [pc EXCEPT ![r] = "engine_finally"]
    /\ UNCHANGED <<loop, video_urls, batch_id, idx, video_paths,
                   list_file_path, engine_list, dl_ret, result, returned,
                   uuid_count, fetchLog, removed, overlap, prior, wsClean>>

\* The finally block removes nothing.
ToRemoveNothing(lfp, f) == {}

\* The finally block clears every file of the workspace.
ToRemoveEverything(lfp, f) == {p \in DOMAIN f : Exists(f, p)}

\* Lines 127 and 240: what a finally block removes, given its
\* list_file_path (<<>> is None) and the file system.
ToRemove(lfp, f) ==
    IF lfp # <<>> /\ Exists(f, lfp[1]) THEN {lfp[1]} ELSE {}

Remove(f, S) == [p \in DOMAIN f |-> IF p \in S THEN NoFile ELSE f[p]]

\* Lines 125-132: the engine's finally; a failing os.remove is caught and
\* logged.
EngineFinally(r, rm) ==
    /\ UNCHANGED others
    /\ Inject(~rm)
    /\ UNCHANGED arrivals
    /\ ~rm => ToRemove(engine_list[r], fs) # {}
    /\ pc[r] = "engine_finally"
    /\ loop = r
    /\ IF ToRemove(engine_list[r], fs) # {}
         THEN IF rm
              THEN /\ fs' = Remove(fs, ToRemove(engine_list[r], fs))
                   /\ removed' = [removed EXCEPT ![r] =
                          @ \cup ToRemove(engine_list[r], fs)]
                   /\ UNCHANGED failures
              ELSE /\ failures' = [failures EXCEPT ![r] =
                          @ \cup {"engine_cleanup"}]
                   /\ UNCHANGED <<fs, removed>>
         ELSE UNCHANGED <<fs, removed, failures>>
    /\ pc' = [pc EXCEPT ![r] = "combined"]
    /\ UNCHANGED <<loop, video_urls, batch_id, idx, video_paths,
                   list_file_path, engine_list, dl_ret, engine_ret, result,
                   returned, uuid_count, fetchLog, toolLog, written, overlap,
                   prior, wsClean>>

\* ------------------------------------------- combine_videos_from_urls, 2
\* Lines 215-230: the result after combine_videos has returned.
AfterCombine(r) ==
    /\ UNCHANGED others
    /\ UNCHANGED <<faults, arrivals>>
    /\ pc[r] = "combined"
    /\ loop = r
    /\ result' = [result EXCEPT ![r] =
           IF ~engine_ret[r]
           THEN <<Failure(<<"Failed to combine videos", 0, 0>>)>>
           ELSE <<Success(CombinedVideoPath(batch_id[r]),
                          VideosDir(batch_id[r]), Len(video_paths[r]))>>]
    /\ pc' = [pc EXCEPT ![r] = "finally"]
    /\ UNCHANGED <<fs, loop, video_urls, batch_id, idx, video_paths,
                   list_file_path, engine_list, dl_ret, engine_ret, returned,
                   uuid_count, fetchLog, toolLog, failures, removed, written,
                   overlap, prior, wsClean>>

\* Lines 231-236: an exception raised in the try block.
Except(r) ==
    /\ UNCHANGED others
    /\ UNCHANGED <<faults, arrivals>>
    /\ pc[r] = "except"
    /\ loop = r
    /\ result' = [result EXCEPT ![r] =
           <<Failure(<<"Error combining videos", 0, 0>>)>>]
    /\ pc' = [pc EXCEPT ![r] = "finally"]
    /\ UNCHANGED <<fs, loop, video_urls, batch_id, idx, video_paths,
                   list_file_path, engine_list, dl_ret, engine_ret, returned,
                   uuid_count, fetchLog, toolLog, failures, removed, written,
                   overlap, prior, wsClean>>

\* Lines 237-242: the orchestrator's finally.  os.remove is not guarded: if
\* it raises, the exception replaces the pending return value.
Finally(r, rm) ==
    /\ UNCHANGED others
    /\ Inject(~rm)
    /\ UNCHANGED arrivals
    /\ ~rm => ToRemove(list_file_path[r], fs) # {}
    /\ pc[r] = "finally"
    /\ loop = r
    /\ loop' = NoRun
    /\ IF ToRemove(list_file_path[r], fs) # {}
         THEN IF rm
              THEN /\ fs' = Remove(fs, ToRemove(list_file_path[r], fs))
                   /\ removed' = [removed EXCEPT ![r] =
                          @ \cup ToRemove(list_file_path[r], fs)]
                   /\ pc' = [pc EXCEPT ![r] = "returned"]
                   /\ returned' = [returned EXCEPT ![r] = result[r]]
                   /\ UNCHANGED failures
              ELSE /\ failures' = [failures EXCEPT ![r] = @ \cup {"cleanup"}]
                   /\ pc' = [pc EXCEPT ![r] = "raised"]
                   /\ UNCHANGED <<fs, removed, returned>>
         ELSE /\ pc' = [pc EXCEPT ![r] = "returned"]
              /\ returned' = [returned EXCEPT ![r] = result[r]]
              /\ UNCHANGED <<fs, removed, failures>>
    /\ UNCHANGED <<video_urls, batch_id, idx, video_paths, list_file_path,
                   engine_list, dl_ret, engine_ret, result, uuid_count,
                   fetchLog, toolLog, written, overlap, prior, wsClean>>

Next ==
    \/ \E r \in Runs, urls \in Requests, b \in BatchIds, ok \in BOOLEAN :
          Start(r, urls, b, ok)
    \/ \E r \in Runs : FetchSend(r)
    \/ \E r \in Runs, resp \in Responses : FetchRespond(r, resp)
    \/ \E r \in Runs : FetchCheck(r)
    \/ \E r \in Runs, io \in {"ok", "open", "write"} : WriteManifest(r, io)
    \/ \E r \in Runs : EngineVerify(r)
    \/ \E r \in Runs, io \in {"ok", "open", "write"} : EngineWriteList(r, io)
    \/ \E r \in Runs, t \in ToolOutcomes : RunTool(r, t)
    \/ \E r \in Runs, rm \in BOOLEAN : EngineFinally(r, rm)
    \/ \E r \in Runs : AfterCombine(r)
    \/ \E r \in Runs : Except(r)
    \/ \E r \in Runs, rm \in BOOLEAN : Finally(r, rm)

Spec == Init /\ [][Next]_vars
SpecConc == InitConc /\ [][Next]_vars

\* A step of run r after its start.
RunStep(r) ==
    \/ FetchSend(r)
    \/ \E resp \in Responses : FetchRespond(r, resp)
    \/ FetchCheck(r)
    \/ \E io \in {"ok", "open", "write"} : WriteManifest(r, io)
    \/ EngineVerify(r)
    \/ \E io \in {"ok", "open", "write"} : EngineWriteList(r, io)
    \/ \E t \in ToolOutcomes : RunTool(r, t)
    \/ \E rm \in BOOLEAN : EngineFinally(r, rm)
    \/ AfterCombine(r)
    \/ Except(r)
    \/ \E rm \in BOOLEAN : Finally(r, rm)

\* One request, and a run that can take a step eventually takes one: the
\* GET returns (the client has a 60 s timeout, line 30), subprocess.run
\* returns, and the event loop resumes a coroutine that is ready.  Which
\* outcome a step has is left to the environment.
SpecLive == Init /\ [][Next]_vars /\ \A r \in Runs : WF_vars(RunStep(r))

\* ------------------------------------------------- GET /download/{filename}
\* routes.py lines 663-674: the file is looked up under temp/; 404 when
\* there is none, otherwise the file is sent.
DownloadStatus(f, name) ==
    LET p == Abspath(Join(<<"", "temp", 0>>, name))
    IN  IF p \in DOMAIN f /\ Exists(f, p) THEN 200 ELSE 404

\* The client of a successful run follows the download reference it was
\* given: it asks for the file name after "/download/".
DownloadEndpoint(r) ==
    /\ pc[r] = "returned"
    /\ returned[r][1].success
    /\ loop = NoRun
    /\ served[r] = <<>>
    /\ served' = [served EXCEPT ![r] =
           <<DownloadStatus(fs, returned[r][1].download_url[1][2])>>]
    /\ UNCHANGED <<fs, loop, pc, video_urls, batch_id, idx, video_paths,
                   list_file_path, engine_list, dl_ret, engine_ret, result,
                   returned, uuid_count, fetchLog, toolLog, failures, removed,
                   written, overlap, prior, wsClean, faults, arrivals,
                   avars, ivars>>

NextHttp ==
    \/ Next
    \/ \E r \in Runs : DownloadEndpoint(r)

\* One request is served, and its client may then fetch the result.
SpecHttp == Init /\ [][NextHttp]_vars

\* ------------------------------------------------------------- os.path
\* Path strings of the two helpers are sequences of one-character strings.
\* Index of the last occurrence of c in s, 0 when there is none
\* (str.rfind, counted from 1).
RFind(s, c) ==
    LET I == {i \in 1..Len(s) : s[i] = c}
    IN  IF I = {} THEN 0 ELSE CHOOSE i \in I : \A j \in I : j <= i

\* Index of the first occurrence of c in s, 0 when there is none.
Find(s, c) ==
    LET I == {i \in 1..Len(s) : s[i] = c}
    IN  IF I = {} THEN 0 ELSE CHOOSE i \in I : \A j \in I : i <= j

\* posixpath.splitext: the extension starts at the last dot of the last
\* component, unless only dots precede it there (".bashrc" has none).
Splitext(p) ==
    LET sep == RFind(p, "/")
        dot == RFind(p, ".")
    IN  IF dot > sep /\ \E k \in (sep + 1)..(dot - 1) : p[k] # "."
        THEN <<SubSeq(p, 1, dot - 1), SubSeq(p, dot, Len(p))>>
        ELSE <<p, <<>>>>

\* posixpath.basename: what follows the last slash.
StrBasename(p) == SubSeq(p, RFind(p, "/") + 1, Len(p))

RECURSIVE RStrip(_, _)
RStrip(s, c) ==
    IF s # <<>> /\ s[Len(s)] = c THEN RStrip(SubSeq(s, 1, Len(s) - 1), c)
    ELSE s

RECURSIVE LStrip(_, _)
LStrip(s, c) ==
    IF s # <<>> /\ s[1] = c THEN LStrip(SubSeq(s, 2, Len(s)), c) ELSE s

\* str.strip(): leading and trailing blanks removed.
Strip(s) == LStrip(RStrip(s, " "), " ")

\* posixpath.dirname: up to the last slash, trailing slashes removed unless
\* nothing but slashes is left.
StrDirname(p) ==
    LET head == SubSeq(p, 1, RFind(p, "/"))
    IN  IF head # <<>> /\ RStrip(head, "/") # <<>> THEN RStrip(head, "/")
        ELSE head

\* posixpath.join of two components.
StrJoin(a, b) ==
    IF b # <<>> /\ b[1] = "/" THEN b
    ELSE IF a = <<>> \/ a[Len(a)] = "/" THEN a \o b
    ELSE a \o <<"/">> \o b

\* s.split(c)[0]: what precedes the first c.
SplitFirst(s, c) ==
    IF Find(s, c) = 0 THEN s ELSE SubSeq(s, 1, Find(s, c) - 1)

\* The variables of combine_videos_from_urls, which the helpers leave alone.
pvars == <<fs, loop, pc, video_urls, batch_id, idx, video_paths,
           list_file_path, engine_list, dl_ret, engine_ret, result, returned,
           uuid_count, fetchLog, toolLog, failures, removed, written,
           overlap, prior, wsClean, faults, arrivals>>

\* No request for combine_videos_from_urls arrives.
PipelineIdle == InitFiles /\ faults = 0 /\ arrivals = 0

\* ------------------------------------------------ download_image_from_url
\* Image URLs: with an extension, without, with a query string, and with a
\* dot only in the query string.
ImageUrls ==
    {<<"h", "/", "i", ".", "p">>, <<"h", "/", "i">>,
     <<"h", "/", "i", ".", "p", "?", "q">>, <<"h", "/", "i", "?", "q", ".", "x">>,
     <<"h", ".", "c">>}
ImageFilenames == {<<>>, <<<<"f", ".", "p">>>>}
SaveDirectory == <<"t", "e", "m", "p">>

\* Statuses of the response; 0: requests.get raised (timeout, connection).
ImageStatuses == {200, 403, 404, 500, 0}

\* Line 35: extension of the URL without its query string, ".jpg" if none.
ImageExt(url) ==
    LET e == Splitext(SplitFirst(url, "?"))[2]
    IN  IF e # <<>> THEN e ELSE <<".", "j", "p", "g">>

\* Lines 34-39: the file name (a fresh uuid4 and the extension when none
\* was given) under the save directory.
ImageFilePath(url, fn) ==
    StrJoin(SaveDirectory,
            IF fn # <<>> /\ fn[1] # <<>> THEN fn[1]
            ELSE <<"uuid4">> \o ImageExt(url))

ImageFailure(kind) == [success |-> FALSE, file_path |-> <<>>, error |-> <<kind>>]
ImageSuccess(p) == [success |-> TRUE, file_path |-> <<p>>, error |-> <<>>]

\* The function is called with an image URL and, possibly, a file name.
InitImage ==
    /\ PipelineIdle /\ EndpointIdle /\ AudioIdle
    /\ ipc = "called"
    /\ image_url \in ImageUrls
    /\ filename \in ImageFilenames
    /\ file_path = <<>>
    /\ ifile = -1
    /\ istatus = -1
    /\ iresult = <<>>

\* Lines 31-39: the directory is created and the path is built.
ImagePrepare(mk) ==
    /\ ipc = "called"
    /\ IF mk
         THEN /\ file_path' = <<ImageFilePath(image_url, filename)>>
              /\ ipc' = "get"
              /\ UNCHANGED iresult
         ELSE /\ iresult' = <<ImageFailure("Unexpected error")>>
              /\ ipc' = "done"
              /\ UNCHANGED file_path
    /\ UNCHANGED <<image_url, filename, ifile, istatus, pvars, served, avars>>

\* Lines 43-44 and 59-64: the GET and raise_for_status.
ImageGet(status) ==
    /\ ipc = "get"
    /\ istatus' = status
    /\ IF status = 200
         THEN ipc' = "save" /\ UNCHANGED iresult
         ELSE /\ iresult' = <<ImageFailure("Error downloading image")>>
              /\ ipc' = "done"
    /\ UNCHANGED <<image_url, filename, file_path, ifile, pvars, served,
                   avars>>

\* Lines 47-57 and 65-70: the body (of size body) is written chunk by
\* chunk; open() or a write may fail.  Nothing looks at the size of what
\* was saved.
ImageSave(body, io) ==
    /\ ipc = "save"
    /\ ifile' = IF io = "open" THEN ifile
                ELSE IF io = "write" THEN 0
                ELSE body
    /\ iresult' = IF io = "ok" THEN <<ImageSuccess(file_path[1])>>
                  ELSE <<ImageFailure("Unexpected error")>>
    /\ ipc' = "done"
    /\ UNCHANGED <<image_url, filename, file_path, istatus, pvars, served,
                   avars>>

NextImage ==
    \/ \E mk \in BOOLEAN : ImagePrepare(mk)
    \/ \E status \in ImageStatuses : ImageGet(status)
    \/ \E body \in 0..2, io \in {"ok", "open", "write"} : ImageSave(body, io)

SpecImage == InitImage /\ [][NextImage]_vars

\* ----------------------------------------------------- add_audio_to_video
\* Arguments the function is called with.  "_with_audio" stands for the
\* eleven characters of that suffix.
AudioVideoPaths ==
    {<<"v", ".", "m">>, <<"d", "/", "v", ".", "m">>, <<"v">>}
AudioAudioPaths ==
    {<<"a", ".", "w">>, <<"v", "_with_audio", ".", "m">>}
\* output_path: None, empty, blank, without and with extension, ending in
\* a slash, a single dot, a dot file, and the two input paths themselves.
OutputArgs ==
    {<<>>, <<<<>>>>, <<<<" ">>>>, <<<<"o">>>>, <<<<"o", ".", "x">>>>,
     <<<<"d", "/">>>>, <<<<".">>>>, <<<<".", "h">>>>, <<<<"v", ".", "m">>>>,
     <<<<"a", ".", "w">>>>}

AExists(files, p) == \E e \in files : e[1] = p
AGetsize(files, p) == (CHOOSE e \in files : e[1] = p)[2]
AWrite(files, p, sz) == {e \in files : e[1] # p} \cup {<<p, sz>>}

\* Line 42: output_path is None or blank.
NoOutputGiven(arg) == arg = <<>> \/ Strip(arg[1]) = <<>>

\* The derived name drops the video's directory.
DerivedOutputPathNoDir(video) ==
    LET name == Splitext(StrBasename(video))
    IN  name[1] \o <<"_with_audio">> \o name[2]

\* Lines 43-46: the path derived from the video path.
DerivedOutputPath(video) ==
    LET name == Splitext(StrBasename(video))
    IN  StrJoin(StrDirname(video), name[1] \o <<"_with_audio">> \o name[2])

\* Lines 54-57: a path without extension gets the video's extension.
WithExtension(out, video) ==
    IF Splitext(out)[2] = <<>> THEN out \o Splitext(video)[2] ELSE out

AudioFailure(kind) ==
    [success |-> FALSE, output_path |-> <<>>, error |-> <<kind>>]
AudioSuccess(out) ==
    [success |-> TRUE, output_path |-> <<out>>, error |-> <<>>]

\* The function is called; each input file exists (not empty) or not.
InitAudio ==
    /\ PipelineIdle /\ EndpointIdle /\ ImageIdle
    /\ apc = "called"
    /\ video_path \in AudioVideoPaths
    /\ audio_path \in AudioAudioPaths
    /\ output_arg \in OutputArgs
    /\ output_path = output_arg
    /\ afs \in {{<<p, 1>> : p \in S} : S \in SUBSET {video_path, audio_path}}
    /\ cmd = <<>>
    /\ aresult = <<>>

\* Lines 33-39: both input files must exist, the video is looked for first.
InputVerdict(files, video, audio) ==
    IF ~AExists(files, video) THEN "Input video does not exist"
    ELSE IF ~AExists(files, audio) THEN "Input audio does not exist"
    ELSE "ok"

AudioCheckInputs ==
    /\ apc = "called"
    /\ LET v == InputVerdict(afs, video_path, audio_path)
       IN  IF v = "ok"
           THEN apc' = "derive" /\ UNCHANGED aresult
           ELSE apc' = "done" /\ aresult' = <<AudioFailure(v)>>
    /\ UNCHANGED <<video_path, audio_path, output_arg, output_path, afs, cmd,
                   pvars, served, ivars>>

\* Lines 41-60: the output path is settled and its directory created.
AudioDerive(mk) ==
    /\ apc = "derive"
    /\ LET o1 == IF NoOutputGiven(output_path)
                 THEN DerivedOutputPath(video_path)
                 ELSE output_path[1]
       IN  IF Strip(o1) = <<>>
           THEN /\ output_path' = <<o1>>
                /\ aresult' = <<AudioFailure("Output path is empty")>>
                /\ apc' = "done"
           ELSE /\ output_path' = <<WithExtension(o1, video_path)>>
                /\ IF mk
                     THEN apc' = "tool" /\ UNCHANGED aresult
                     ELSE /\ apc' = "done"
                          /\ aresult' =
                               <<AudioFailure("Error adding audio to video")>>
    /\ UNCHANGED <<video_path, audio_path, output_arg, afs, cmd, pvars,
                   served, ivars>>

\* The size of the output is not checked.
AudioVerdictNoSize(files, out, t) ==
    IF t.rc = -1 THEN "Error adding audio to video"
    ELSE IF t.rc # 0 THEN "FFmpeg error"
    ELSE IF ~AExists(files, out) THEN "Output file was not created"
    ELSE "ok"

\* Lines 87-120, given the tool's outcome and the files after it.
AudioVerdict(files, out, t) ==
    IF t.rc = -1 THEN "Error adding audio to video"
    ELSE IF t.rc # 0 THEN "FFmpeg error"
    ELSE IF ~AExists(files, out) THEN "Output file was not created"
    ELSE IF AGetsize(files, out) = 0 THEN "Output file is empty"
    ELSE "ok"

\* Lines 62-113: ffmpeg -y -i video -i audio ... output, then the checks.
AudioRunTool(t) ==
    /\ apc = "tool"
    /\ LET out == output_path[1]
           files == IF t.out = "none" THEN afs
                    ELSE IF t.out = "empty" THEN AWrite(afs, out, 0)
                    ELSE AWrite(afs, out, 1)
           v == AudioVerdict(files, out, t)
       IN  /\ afs' = files
           /\ cmd' = Append(cmd, [video |-> video_path, audio |-> audio_path,
                                  output |-> out, rc |-> t.rc])
           /\ aresult' = IF v = "ok" THEN <<AudioSuccess(out)>>
                         ELSE <<AudioFailure(v)>>
    /\ apc' = "done"
    /\ UNCHANGED <<video_path, audio_path, output_arg, output_path, pvars,
                   served, ivars>>

NextAudio ==
    \/ AudioCheckInputs
    \/ \E mk \in BOOLEAN : AudioDerive(mk)
    \/ \E t \in ToolOutcomes : AudioRunTool(t)

SpecAudio == InitAudio /\ [][NextAudio]_vars

\* ------------------------------------------------------------ properties
ManifestPaths ==
    {ListFilePath(b) : b \in BatchIds} \cup {EngineListFilePath(u) : u \in Runs}

\* Manifest files on disk that run r created.
ManifestsOf(r) == {p \in ManifestPaths : Exists(fs, p) /\ fs[p].by = r}

FetchFailedAt(r, j) == fetchLog[r][j].ret \in {"failed", "empty"}

\* C1: whenever the concatenation tool is invoked, the manifest it reads has
\* one entry per URL of the request, and entry k is the file into which the
\* k-th URL of the request was downloaded.
C1_OrderPreserved ==
    \A r \in Runs : \A n \in 1..Len(toolLog[r]) :
        LET m == toolLog[r][n].manifest
        IN  /\ Len(m) = Len(video_urls[r])
            /\ Len(fetchLog[r]) = Len(video_urls[r])
            /\ \A k \in 1..Len(m) :
                 /\ fetchLog[r][k].pos = k
                 /\ fetchLog[r][k].url = video_urls[r][k]
                 /\ fetchLog[r][k].ret = "ok"
                 /\ m[k] = fetchLog[r][k].path

C1_Witness ==
    \E r \in Runs :
        /\ Len(toolLog[r]) = 1
        /\ Len(video_urls[r]) = 2
        /\ video_urls[r][1] # video_urls[r][2]
        /\ toolLog[r][1].manifest[1] # toolLog[r][1].manifest[2]

\* C2: once the fetch of the k-th URL has failed, no URL at a later position
\* is fetched (at most k GETs are issued), the tool is never invoked, and the
\* run ends by returning success = false.
C2_FailFast ==
    \A r \in Runs : \A j \in 1..Len(fetchLog[r]) :
        FetchFailedAt(r, j) =>
            /\ fetchLog[r][j].pos = j
            /\ Len(fetchLog[r]) = j
            /\ toolLog[r] = <<>>
            /\ pc[r] # "raised"
            /\ pc[r] = "returned" => ~returned[r][1].success

C2_Witness ==
    \E r \in Runs :
        /\ pc[r] = "returned"
        /\ Len(video_urls[r]) = 2
        /\ Len(fetchLog[r]) = 1
        /\ FetchFailedAt(r, 1)
        /\ ~returned[r][1].success

FatalFailures ==
    {"mkdir", "fetch", "asset", "manifest_io", "engine_asset", "engine_io",
     "engine_list", "tool_exec", "tool_exit", "post"}

\* C3: a returned result with success = true names an output file that
\* exists and is not empty, and no run in which a fetch, the local-asset
\* check, the tool or the post-condition check failed returns success = true.
C3_NonEmptyOutput ==
    \A r \in Runs :
        pc[r] = "returned" =>
            LET d == returned[r][1]
            IN  /\ d.success =>
                     /\ Exists(fs, d.combined_video_path[1])
                     /\ Getsize(fs, d.combined_video_path[1]) > 0
                /\ failures[r] \cap FatalFailures # {} => ~d.success

C3_Witness ==
    \E r \in Runs :
        /\ pc[r] = "returned"
        /\ returned[r][1].success
        /\ Getsize(fs, CombinedVideoPath(batch_id[r])) > 0

\* C4: combine_videos_from_urls never propagates an exception to its caller,
\* whichever step fails.
C4_NoExceptionEscapes == \A r \in Runs : pc[r] # "raised"

\* C5 as stated: after a run has returned, no manifest file it created
\* (orchestrator's or engine's) is left on disk.
C5_NoManifestLeft ==
    \A r \in Runs : pc[r] = "returned" => ManifestsOf(r) = {}

\* C5 as amended: after a run has returned, the orchestrator's manifest is
\* gone, and the only manifest of the run that can be left is the engine's
\* one, when the engine's os.remove of it failed.
C5_NoManifestLeftUnlessRemoveFailed ==
    \A r \in Runs :
        pc[r] = "returned" =>
            /\ ~(Exists(fs, ListFilePath(batch_id[r]))
                 /\ fs[ListFilePath(batch_id[r])].by = r)
            /\ \A p \in ManifestsOf(r) :
                 /\ engine_list[r] = <<p>>
                 /\ "engine_cleanup" \in failures[r]

C5_Witness ==
    \E r \in Runs :
        /\ pc[r] = "returned"
        /\ ListFilePath(batch_id[r]) \in removed[r]
        /\ engine_list[r] # <<>>
        /\ engine_list[r][1] \in removed[r]
        /\ ManifestsOf(r) = {}

\* C6: when removing a manifest file fails during cleanup, the caller still
\* receives exactly the result the pipeline had determined before cleanup.
C6_CleanupNeverMasks ==
    \A r \in Runs :
        Finished(r) /\ failures[r] \cap {"cleanup", "engine_cleanup"} # {} =>
            result[r] # <<>> /\ returned[r] = result[r]

\* C7: a cleanup step (either finally block) changes no file other than the
\* run's own manifest, so downloaded clips and the output are left as they
\* were; in particular, after a run in which the tool could not be started,
\* every downloaded clip is still on disk.
C7_CleanupFrame ==
    [][\A r \in Runs :
          /\ pc[r] \in {"finally", "engine_finally"} /\ pc'[r] # pc[r] =>
                \A p \in AllPaths :
                    fs'[p] # fs[p] =>
                        /\ p \in ManifestPaths
                        /\ <<p>> \in {list_file_path[r], engine_list[r]}
          /\ Finished(r)' /\ "tool_exec" \in failures'[r] =>
                \A k \in 1..Len(video_urls'[r]) :
                    /\ Exists(fs', VideoPath(batch_id'[r], k))
                    /\ fs'[VideoPath(batch_id'[r], k)].data
                         = <<video_urls'[r][k]>>
      ]_vars

C7_Witness ==
    \E r \in Runs :
        /\ pc[r] = "returned"
        /\ "tool_exec" \in failures[r]
        /\ removed[r] # {}
        /\ Len(video_urls[r]) = 2
        /\ \A k \in 1..2 : Exists(fs, VideoPath(batch_id[r], k))

\* C8: two runs whose executions overlap have different batch identifiers
\* and write no common path.
C8_BatchIsolation ==
    \A r, q \in Runs :
        r # q /\ {r, q} \in overlap =>
            /\ batch_id[r] # batch_id[q]
            /\ written[r] \cap written[q] = {}

\* C9: a run that repeats the request of an earlier, failed run gets a batch
\* identifier different from that run's and a workspace without any file.
C9_IndependentRetry ==
    \A r, q \in Runs :
        /\ r \in prior[q]
        /\ video_urls[q] = video_urls[r]
        /\ (pc[r] = "returned" => ~returned[r][1].success)
        => /\ batch_id[q] # batch_id[r]
           /\ wsClean[q]

\* C10: a returned result is either a success with an output path and a
\* download reference and no error, or a failure with one error and neither
\* output path nor download reference.
C10_AllOrNothing ==
    \A r \in Runs :
        pc[r] = "returned" =>
            LET d == returned[r][1]
            IN  \/ /\ d.success
                   /\ Len(d.combined_video_path) = 1
                   /\ Len(d.download_url) = 1
                   /\ d.error = <<>>
                \/ /\ ~d.success
                   /\ Len(d.error) = 1
                   /\ d.combined_video_path = <<>>
                   /\ d.download_url = <<>>

C10_Witness ==
    \E r \in Runs :
        /\ pc[r] = "returned"
        /\ ~returned[r][1].success
        /\ Len(toolLog[r]) = 1
        /\ Exists(fs, CombinedVideoPath(batch_id[r]))
        /\ Getsize(fs, CombinedVideoPath(batch_id[r])) > 0

\* The error text combine_videos_from_urls gives for each step that can
\* end a run, lines 185, 193, 219 and 235 (index and URL left out).
ErrorTextOf(kind) ==
    IF kind = "fetch" THEN "Failed to download video"
    ELSE IF kind = "asset" THEN "Downloaded video file is missing or empty"
    ELSE IF kind \in {"mkdir", "manifest_io"} THEN "Error combining videos"
    ELSE "Failed to combine videos"

FailedReturn(r) == pc[r] = "returned" /\ ~returned[r][1].success

\* C11: a failed result carries one error, whose text is the one of the
\* single step that failed; when that step is the fetch of the k-th URL (no
\* 200 response, an exception, or an empty body) the error names position k
\* of the request, and so the k-th URL; it prints the URL itself as well
\* when download_video reported the failure (for an empty body, which the
\* orchestrator's size check finds, it prints the position only).
C11_ErrorAttribution ==
    \A r \in Runs :
        FailedReturn(r) =>
            LET e == returned[r][1].error[1]
                fatal == failures[r] \cap FatalFailures
            IN  /\ Len(returned[r][1].error) = 1
                /\ Cardinality(fatal) = 1
                /\ \A kind \in fatal : e[1] = ErrorTextOf(kind)
                /\ \A k \in 1..Len(fetchLog[r]) :
                     /\ fetchLog[r][k].ret = "failed" =>
                            e = <<"Failed to download video", k,
                                  video_urls[r][k]>>
                     /\ fetchLog[r][k].ret = "empty" =>
                            e = <<"Downloaded video file is missing or empty",
                                  k, 0>>

C11_Witness ==
    \E r \in Runs :
        /\ FailedReturn(r)
        /\ Len(video_urls[r]) = 2
        /\ Len(fetchLog[r]) = 2
        /\ fetchLog[r][2].ret = "empty"
        /\ returned[r][1].error[1][2] = 2

LastFetch(log) == log[Len(log)]

\* C12: a step of download_video that received a response with a status
\* outside 200..299 (or no response at all) returns False and leaves the
\* destination as it was; a step that returns True has put the body of the
\* response into the destination file and has changed no other file.
C12_StatusHandling ==
    [][\A r \in Runs :
          pc[r] = "awaiting" /\ pc'[r] = "downloaded" =>
              LET e == LastFetch(fetchLog'[r])
              IN  /\ e.status \notin 200..299 =>
                       /\ ~dl_ret'[r]
                       /\ fs'[e.path] = fs[e.path]
                  /\ dl_ret'[r] =>
                       /\ e.status \in 200..299
                       /\ Exists(fs', e.path)
                       /\ fs'[e.path].data = <<e.url>>
                       /\ fs'[e.path].by = r
                       /\ \A p \in AllPaths : p # e.path => fs'[p] = fs[p]
      ]_vars

C12_Witness ==
    \E r \in Runs :
        /\ pc[r] = "downloaded"
        /\ Len(fetchLog[r]) = 2
        /\ fetchLog[r][1].status = 200
        /\ Exists(fs, fetchLog[r][1].path)
        /\ fetchLog[r][2].status = 404
        /\ ~dl_ret[r]
        /\ ~Exists(fs, fetchLog[r][2].path)

\* C13: when download_video has received a success status and the file it
\* leaves at the destination has zero length, it returns False.
C13_EmptyBodyIsFailure ==
    \A r \in Runs :
        pc[r] = "downloaded" =>
            LET e == LastFetch(fetchLog[r])
            IN  /\ e.status \in 200..299
                /\ Exists(fs, e.path)
                /\ Getsize(fs, e.path) = 0
                => ~dl_ret[r]

LastTool(log) == log[Len(log)]

\* C14: the step that invokes the tool starts in a state where the manifest
\* has one line per URL of the request and every file it lists exists and
\* is not empty; every path the orchestrator has accepted into video_paths
\* is such a file; and a run that found a missing or empty file never
\* invokes the tool and returns success = false.
C14_LocalAssetInvariant ==
    [][\A r \in Runs :
          /\ pc[r] = "tool" /\ pc'[r] # "tool" =>
                LET m == LastTool(toolLog'[r]).manifest
                IN  /\ Len(toolLog'[r]) = Len(toolLog[r]) + 1
                    /\ Len(m) = Len(video_urls[r])
                    /\ \A k \in 1..Len(m) :
                         Exists(fs, m[k]) /\ Getsize(fs, m[k]) > 0
          /\ \A k \in 1..Len(video_paths'[r]) :
                /\ Exists(fs', video_paths'[r][k])
                /\ Getsize(fs', video_paths'[r][k]) > 0
          /\ failures'[r] \cap {"asset", "engine_asset"} # {} =>
                /\ toolLog'[r] = <<>>
                /\ pc'[r] # "raised"
                /\ pc'[r] = "returned" => ~returned'[r][1].success
      ]_vars

C14_Witness ==
    \E r \in Runs :
        /\ pc[r] = "engine_finally"
        /\ Len(toolLog[r]) = 1
        /\ Len(toolLog[r][1].manifest) = 2
        /\ \A k \in 1..2 : Getsize(fs, toolLog[r][1].manifest[k]) > 0

\* C15: combine_videos returns True only if the tool it ran exited with
\* status 0 and the output file exists and is not empty when it returns;
\* after a tool run that exits with 0 and leaves the output missing or
\* empty, combine_videos returns False.
C15_PostCondition ==
    \A r \in Runs :
        pc[r] \in {"engine_finally", "combined"} =>
            LET output == CombinedVideoPath(batch_id[r])
            IN  /\ engine_ret[r] =>
                     /\ Len(toolLog[r]) = 1
                     /\ LastTool(toolLog[r]).rc = 0
                     /\ LastTool(toolLog[r]).output = output
                     /\ Exists(fs, output)
                     /\ Getsize(fs, output) > 0
                /\ /\ toolLog[r] # <<>>
                   /\ ~Exists(fs, output) \/ Getsize(fs, output) = 0
                   => ~engine_ret[r]

C15_Witness ==
    \E r \in Runs :
        /\ pc[r] = "combined"
        /\ Len(toolLog[r]) = 1
        /\ toolLog[r][1].rc = 0
        /\ Exists(fs, CombinedVideoPath(batch_id[r]))
        /\ Getsize(fs, CombinedVideoPath(batch_id[r])) = 0
        /\ ~engine_ret[r]

\* C16: in the result the caller receives after the tool was run and the
\* batch failed, a non-zero exit of the tool and a failed post-condition
\* check (exit 0, output missing or empty) can be told apart: the error of
\* the one is not the error the pipeline gives for the other.  (The other
\* half of the claim, that combine_videos returns the tool's diagnostic
\* output, has no counterpart in the code: engine_ret is a bare truth value.)
C16_ToolFailureDiagnosable ==
    \A r \in Runs :
        FailedReturn(r) /\ toolLog[r] # <<>> =>
            LET e == returned[r][1].error[1]
            IN  /\ "tool_exit" \in failures[r] => e[1] # ErrorTextOf("post")
                /\ "post" \in failures[r] => e[1] # ErrorTextOf("tool_exit")

\* C17: after a run has returned success = false, no file exists at the
\* output path of its batch.
C17_FailedLeavesNoOutput ==
    \A r \in Runs :
        FailedReturn(r) => ~Exists(fs, CombinedVideoPath(batch_id[r]))

\* C18: within one run no position of the request is fetched twice, the tool
\* is invoked at most once, and nothing is attempted again after a failure:
\* a failed fetch is the last GET of the run and is followed by no tool
\* invocation, and a run whose tool invocation failed has issued exactly one.
C18_NoRetries ==
    \A r \in Runs :
        /\ \A i, j \in 1..Len(fetchLog[r]) :
               fetchLog[r][i].pos = fetchLog[r][j].pos => i = j
        /\ Len(fetchLog[r]) <= Len(video_urls[r])
        /\ Len(toolLog[r]) <= 1
        /\ \A j \in 1..Len(fetchLog[r]) :
               FetchFailedAt(r, j) => j = Len(fetchLog[r]) /\ toolLog[r] = <<>>
        /\ failures[r] \cap {"tool_exec", "tool_exit", "post"} # {} =>
               Len(toolLog[r]) = 1

C18_Witness ==
    \E r \in Runs :
        /\ pc[r] = "returned"
        /\ Len(fetchLog[r]) = 2
        /\ "tool_exit" \in failures[r]
        /\ Len(toolLog[r]) = 1
        /\ ~returned[r][1].success

\* Fetches 1..n of run r are the positions 1..n in order, each returned
\* success, and their files are the first n verified paths.
FetchedInOrder(r, n) ==
    /\ Len(fetchLog[r]) >= n
    /\ Len(video_paths[r]) >= n
    /\ \A j \in 1..n :
         /\ fetchLog[r][j].pos = j
         /\ fetchLog[r][j].url = video_urls[r][j]
         /\ fetchLog[r][j].ret = "ok"
         /\ video_paths[r][j] = fetchLog[r][j].path

\* C19: a GET for position k is issued only when the fetches of positions
\* 1..k-1, and no others, have returned success and been verified, and none
\* is in progress; a list file (the orchestrator's or the engine's) is
\* written only when all N fetches have; the tool is invoked only when both
\* list files have been written.
C19_PhaseOrdering ==
    [][\A r \in Runs :
          /\ pc[r] = "fetch" /\ pc'[r] # "fetch" =>
                /\ Len(fetchLog[r]) = idx[r] - 1
                /\ Len(video_paths[r]) = idx[r] - 1
                /\ FetchedInOrder(r, idx[r] - 1)
                /\ LastFetch(fetchLog'[r]).pos = idx[r]
          /\ pc[r] \in {"manifest", "engine_list"} /\ pc'[r] # pc[r] =>
                /\ Len(fetchLog[r]) = Len(video_urls[r])
                /\ Len(video_paths[r]) = Len(video_urls[r])
                /\ FetchedInOrder(r, Len(video_urls[r]))
          /\ pc[r] = "tool" /\ pc'[r] # "tool" =>
                /\ list_file_path[r] = <<ListFilePath(batch_id[r])>>
                /\ engine_list[r] # <<>>
                /\ {list_file_path[r][1], engine_list[r][1]} \subseteq written[r]
                /\ Exists(fs, list_file_path[r][1])
                /\ Exists(fs, engine_list[r][1])
                /\ FetchedInOrder(r, Len(video_urls[r]))
      ]_vars

C19_Witness ==
    \E r \in Runs :
        /\ pc[r] = "engine_finally"
        /\ Len(toolLog[r]) = 1
        /\ Len(fetchLog[r]) = 2
        /\ FetchedInOrder(r, 2)
        /\ Exists(fs, ListFilePath(batch_id[r]))

\* C20: every run that has started eventually returns a result to its
\* caller, given that every GET and the tool invocation return.
C20_Terminates ==
    \A r \in Runs : (pc[r] # "idle") ~> (pc[r] = "returned")

\* What does hold: every run that has started eventually ends, by returning
\* a result or by raising the exception of the unguarded os.remove.
EveryRunEnds ==
    \A r \in Runs : (pc[r] # "idle") ~> Finished(r)

SuccessReturn(r) == pc[r] = "returned" /\ returned[r][1].success

\* C21: in every successful result the download reference is "/download/"
\* followed by the last component of the result's output path, and that
\* file name is combined_<batch id of the run>.mp4.
C21_DownloadReferenceForm ==
    \A r \in Runs :
        SuccessReturn(r) =>
            LET d == returned[r][1]
                out == d.combined_video_path[1]
                ref == d.download_url[1]
            IN  /\ Len(ref) = 2
                /\ ref[1] = "/download/"
                /\ ref[2] = out[Len(out)]
                /\ ref[2] = <<"combined_", <<batch_id[r]>>, ".mp4">>

C21_Witness ==
    \E r \in Runs :
        /\ SuccessReturn(r)
        /\ batch_id[r] = 2
        /\ returned[r][1].download_url[1][2][2] = <<2>>

\* C26: in a run whose request has no URL, no GET is issued, the tool is
\* never invoked (combine_videos stops at its empty list file), and the
\* result the run returns is a failure, never a success.
C26_EmptyRequestFails ==
    \A r \in Runs :
        pc[r] # "idle" /\ video_urls[r] = <<>> =>
            /\ fetchLog[r] = <<>>
            /\ toolLog[r] = <<>>
            /\ pc[r] # "tool"
            /\ result[r] # <<>> => ~result[r][1].success
            /\ pc[r] = "returned" => ~returned[r][1].success
            /\ pc[r] = "combined" => ~engine_ret[r]

C26_Witness ==
    \E r \in Runs :
        /\ FailedReturn(r)
        /\ video_urls[r] = <<>>
        /\ failures[r] = {"engine_list"}
        /\ engine_list[r] # <<>>
        /\ engine_list[r][1] \in removed[r]

\* C27: when a run is about to invoke the tool, the orchestrator's list file
\* video_list_<batch_id>.txt and the engine's list file video_list_<uuid>.txt
\* both exist and hold the same paths in the same order, one per URL of the
\* request; and the manifest the tool was given is the content the
\* orchestrator's list file still has when the tool has run.
C27_ManifestAgreement ==
    \A r \in Runs :
        /\ pc[r] = "tool" =>
              /\ list_file_path[r] # <<>> /\ engine_list[r] # <<>>
              /\ list_file_path[r] # engine_list[r]
              /\ Exists(fs, list_file_path[r][1])
              /\ Exists(fs, engine_list[r][1])
              /\ fs[list_file_path[r][1]].data = fs[engine_list[r][1]].data
              /\ Len(fs[engine_list[r][1]].data) = Len(video_urls[r])
        /\ pc[r] \in {"engine_finally", "combined", "finally"}
              /\ toolLog[r] # <<>> =>
              /\ Exists(fs, list_file_path[r][1])
              /\ fs[list_file_path[r][1]].data = LastTool(toolLog[r]).manifest

C27_Witness ==
    \E r \in Runs :
        /\ pc[r] = "tool"
        /\ Len(fs[engine_list[r][1]].data) = 2
        /\ fs[list_file_path[r][1]].data[2] = VideoPath(batch_id[r], 2)
        /\ fs[engine_list[r][1]].data[2] = VideoPath(batch_id[r], 2)

\* Positions at which the zero-padding changes width, besides 1..MaxUrls.
PaddingEdges == {9, 10, 11, 99, 100, 101, 999, 1000, 1001}

\* C29: different positions have different file names (also where the
\* padding to 3 digits stops padding); a download for position k leaves the
\* files of the earlier positions of the run as they are; after a
\* successful run each position 1..N has its own file, holding what its URL
\* delivered, and the result reports video_count = N.
C29_DistinctFiles ==
    [][/\ \A i, j \in (1..MaxUrls) \cup PaddingEdges :
             VideoFilename(i) = VideoFilename(j) => i = j
       /\ \A r \in Runs :
             /\ pc[r] = "awaiting" /\ pc'[r] = "downloaded" =>
                   \A j \in 1..(Len(fetchLog[r]) - 1) :
                       /\ fetchLog[r][j].path # LastFetch(fetchLog[r]).path
                       /\ fs'[fetchLog[r][j].path] = fs[fetchLog[r][j].path]
             /\ SuccessReturn(r)' =>
                   LET n == Len(video_urls'[r])
                   IN  /\ returned'[r][1].video_count = <<n>>
                       /\ Cardinality({fetchLog'[r][k].path : k \in 1..n}) = n
                       /\ \A k \in 1..n :
                            /\ Exists(fs', fetchLog'[r][k].path)
                            /\ fs'[fetchLog'[r][k].path].data
                                 = <<video_urls'[r][k]>>
      ]_vars

C29_Witness ==
    \E r \in Runs :
        /\ SuccessReturn(r)
        /\ Len(video_urls[r]) = 2
        /\ video_urls[r][1] = video_urls[r][2]
        /\ returned[r][1].video_count = <<2>>
        /\ fetchLog[r][1].path # fetchLog[r][2].path

\* C24: when the client of a successful run asks the download endpoint for
\* the file name of its download reference while the output file is in
\* place, the endpoint finds the file: it answers 200, not 404.
C24_DownloadResolves ==
    \A r \in Runs :
        /\ served[r] # <<>>
        /\ Exists(fs, returned[r][1].combined_video_path[1])
        => served[r][1] = 200

\* C25: download_image_from_url always returns a dict; the dict says
\* success = false whenever the response had an error status or the GET
\* raised; and when it says success = true, the file at the returned
\* file_path is not empty.
C25_ImageVerified ==
    ipc = "done" =>
        /\ iresult # <<>>
        /\ istatus \in {0} \cup (400..599) => ~iresult[1].success
        /\ iresult[1].success =>
               /\ iresult[1].file_path = file_path
               /\ ifile > 0

\* C22: add_audio_to_video always returns a dict; it says success = true
\* exactly when both input files existed, ffmpeg was run and exited with 0,
\* and the output file exists and is not empty afterwards; when an input
\* file is missing ffmpeg is not run and the result is a failure, which
\* names the video when both are missing.
C22_TwoStreamValidation ==
    apc = "done" =>
        /\ aresult # <<>>
        /\ Len(cmd) <= 1
        /\ aresult[1].success <=>
               /\ AExists(afs, video_path)
               /\ AExists(afs, audio_path)
               /\ Len(cmd) = 1
               /\ cmd[1].rc = 0
               /\ AExists(afs, cmd[1].output)
               /\ AGetsize(afs, cmd[1].output) > 0
        /\ aresult[1].success => aresult[1].output_path = <<cmd[1].output>>
        /\ ~AExists(afs, video_path) \/ ~AExists(afs, audio_path) =>
               /\ cmd = <<>>
               /\ ~aresult[1].success
        /\ ~AExists(afs, video_path) =>
               aresult[1].error = <<"Input video does not exist">>

C22_Witness ==
    /\ apc = "done"
    /\ Len(cmd) = 1
    /\ cmd[1].rc = 0
    /\ AExists(afs, cmd[1].output)
    /\ AGetsize(afs, cmd[1].output) = 0
    /\ ~aresult[1].success

HasExtension(p) == Splitext(p)[2] # <<>>

\* The three derivation rules of C23: without a given output path the tool
\* gets the video's directory joined with its base name, "_with_audio" and
\* its extension; a given path without extension gets the video's
\* extension appended; a given path with an extension is passed as it is.
OutputPathRules ==
    \A n \in 1..Len(cmd) :
        LET v == cmd[n].video
            name == Splitext(StrBasename(v))
        IN  /\ NoOutputGiven(output_arg) =>
                   cmd[n].output =
                       StrJoin(StrDirname(v),
                               name[1] \o <<"_with_audio">> \o name[2])
            /\ ~NoOutputGiven(output_arg) /\ ~HasExtension(output_arg[1]) =>
                   cmd[n].output = output_arg[1] \o Splitext(v)[2]
            /\ ~NoOutputGiven(output_arg) /\ HasExtension(output_arg[1]) =>
                   cmd[n].output = output_arg[1]

HasStem(p) == \E k \in 1..Len(StrBasename(p)) : StrBasename(p)[k] # "."

C30_OutputDiffersFromInputs ==
    \A n \in 1..Len(cmd) :
        /\ cmd[n].output # cmd[n].video
        /\ cmd[n].output # cmd[n].audio

\* ---------------------------------------------- cleanup across requests
\* Two environment failures over NumRuns requests: enough for one request to
\* leave its list file behind and for a later one to fail on its own.
CleanupFaults == 2

InitCleanup ==
    /\ InitFiles
    /\ EndpointIdle /\ AudioIdle /\ ImageIdle
    /\ faults = CleanupFaults
    /\ arrivals = NumRuns

\* Requests of at most one URL: what a finally block removes does not depend
\* on the number of clips.
ShortRequests == {urls \in Requests : Len(urls) <= 1}

NextCleanup ==
    \/ \E r \in Runs, urls \in ShortRequests, b \in BatchIds, ok \in BOOLEAN :
          Start(r, urls, b, ok)
    \/ \E r \in Runs : FetchSend(r)
    \/ \E r \in Runs, resp \in Responses : FetchRespond(r, resp)
    \/ \E r \in Runs : FetchCheck(r)
    \/ \E r \in Runs, io \in {"ok", "open", "write"} : WriteManifest(r, io)
    \/ \E r \in Runs : EngineVerify(r)
    \/ \E r \in Runs, io \in {"ok", "open", "write"} : EngineWriteList(r, io)
    \/ \E r \in Runs, t \in ToolOutcomes : RunTool(r, t)
    \/ \E r \in Runs, rm \in BOOLEAN : EngineFinally(r, rm)
    \/ \E r \in Runs : AfterCombine(r)
    \/ \E r \in Runs : Except(r)
    \/ \E r \in Runs, rm \in BOOLEAN : Finally(r, rm)

SpecCleanup == InitCleanup /\ [][NextCleanup]_vars

\* The list files of both functions.
ManifestFiles ==
    {ListFilePath(b) : b \in BatchIds} \cup {EngineListFilePath(u) : u \in Runs}

\* No finally block removes a file that a run still in progress created.
CleanupSparesActiveRuns ==
    [][\A r \in Runs : \A p \in removed'[r] \ removed[r] :
           \A q \in Runs \ {r} : Active(q) => fs[p].by # q]_vars

\* C28: whatever a finally block of run r removes is a list file that r
\* itself wrote, and no file created by another run still in progress.
C28_CleanupConfined ==
    [][\A r \in Runs : \A p \in removed'[r] \ removed[r] :
           /\ p \in ManifestFiles
           /\ fs[p].by = r
           /\ \A q \in Runs \ {r} : Active(q) => fs[p].by # q]_vars

====
